---------------------------- MODULE Spec2Model ----------------------------
(***************************************************************************)
(* A model of the entity extraction and tagging engine of the financial    *)
(* note tagger: the overlap resolver (_remove_overlaps), the tag overlay   *)
(* (tag_text, tag_paragraph) and the subsection segmenter                  *)
(* (detect_subsections), as written in src/src/tagger.py and               *)
(* src/src/config.py, the extractors with the regular expressions they     *)
(* match, the Named-Entity provider (src/src/ner_module.py) and the XML    *)
(* output (src/src/xml_handler.py).                                        *)
(*                                                                         *)
(* A text is a sequence of one-character strings.  A tagged text is a      *)
(* sequence of tokens: one-character strings and whole tag markers.        *)
(***************************************************************************)
EXTENDS Integers, Sequences, FiniteSets, TLC

VARIABLES
    pc,           \* which call is in progress and how far it got
    text,         \* the paragraph text given to the tagger
    pool,         \* the candidate pool, in insertion order
    accepted,     \* the spans returned by the resolver
    tagged,       \* the token sequence returned by tag_text
    paragraphs,   \* the paragraph sequence given to detect_subsections
    idx,          \* how many paragraphs its loop has consumed
    subsections,  \* the subsections emitted so far
    current_section,  \* the open subsection: <<>> for None, else <<section>>
    use_ner,      \* the tagger's use_ner flag
    ner,          \* the tagger's provider: <<>> for None, else <<provider>>
    stats,        \* the tagger's statistics counters
    doc,          \* the entities the provider found in the last text
    emitted,      \* how many paragraphs generate_output_xml has emitted
    output,       \* the subsection elements under the note element
    tagged_text,  \* the characters generate_output_xml last handed to
                  \* _set_paragraph_content
    para_elem     \* the paragraph element last built: <<>> or <<element>>

tagvars == <<text, pool, accepted, tagged>>

segvars == <<paragraphs, idx, subsections, current_section>>

taggervars == <<use_ner, ner, stats, doc>>

xmlvars == <<emitted, output, tagged_text, para_elem>>

pipevars == <<use_ner, ner, stats, doc, emitted, output, tagged_text, para_elem>>

vars == <<pc, text, pool, accepted, tagged,
          paragraphs, idx, subsections, current_section,
          use_ner, ner, stats, doc, emitted, output, tagged_text, para_elem>>

---------------------------------------------------------------------------
(* Bounds of the model.                                                    *)

MaxLen == 3

MaxPool == 3

MaxTagPool == 2

MaxParas == 4

Alphabet == {"a", "b"}

---------------------------------------------------------------------------
(* Pattern library: config.py.                                             *)

ENTITY_PRIORITIES ==
    [tag_id \in {"IncorporationDate",
                 "AddressOfRegisteredOfficeOfEntity",
                 "EntityPrimaryTradingSymbol",
                 "NameOfReportingEntityOrOtherMeansOfIdentification",
                 "Financial_Amount_Placeholder",
                 "Financial_Concept_Placeholder",
                 "Date_Placeholder"} |->
        CASE tag_id = "IncorporationDate" -> 100
          [] tag_id = "AddressOfRegisteredOfficeOfEntity" -> 90
          [] tag_id = "EntityPrimaryTradingSymbol" -> 85
          [] tag_id = "NameOfReportingEntityOrOtherMeansOfIdentification" -> 80
          [] tag_id = "Financial_Amount_Placeholder" -> 70
          [] tag_id = "Financial_Concept_Placeholder" -> 60
          [] tag_id = "Date_Placeholder" -> 50]

EntityTagIds == DOMAIN ENTITY_PRIORITIES

\* The entity classes the bounded candidate pools draw from: the highest,
\* a middle and the lowest priority.
PoolTagIds ==
    {"IncorporationDate",
     "NameOfReportingEntityOrOtherMeansOfIdentification",
     "Date_Placeholder"}

---------------------------------------------------------------------------
(* Entities.                                                               *)

\* Python's s[a:b] for 0 <= a and b <= len(s): empty when a >= b.
Slice(s, a, b) == SubSeq(s, a + 1, b)

\* Entity(start=match.start(), end=match.end(), tag_id=..., text=match.group(),
\* priority=ENTITY_PRIORITIES[...]) as every extractor builds it from a match.
Entity(t, start, end, tag_id) ==
    [start |-> start, end |-> end, tag_id |-> tag_id,
     text |-> Slice(t, start, end), priority |-> ENTITY_PRIORITIES[tag_id]]

\* What the extractors can return for a text: a match of one of the patterns
\* is a non-empty range of the text; which ranges match is left open.
Candidates(t) ==
    {Entity(t, s, e, id) : s \in 0..Len(t), e \in 0..Len(t), id \in PoolTagIds}
        \ {c \in {Entity(t, s, e, id) :
                     s \in 0..Len(t), e \in 0..Len(t), id \in PoolTagIds} :
              c.start >= c.end}

SeqsUpTo(S, n) == UNION {[1..k -> S] : k \in 0..n}

---------------------------------------------------------------------------
(* Overlap resolver: FinancialNoteTagger._remove_overlaps.                 *)

\* Python's order of two tuples of integers of the same length
TupleLess(a, b) ==
    \E k \in DOMAIN a : a[k] < b[k] /\ \A m \in 1..(k - 1) : a[m] = b[m]

\* The index i inserted into the sorted index sequence t after every index
\* whose key does not come after the key of i.
InsertSorted(t, i, keys) ==
    LET p == Cardinality({j \in 1..Len(t) : ~TupleLess(keys[i], keys[t[j]])})
    IN  SubSeq(t, 1, p) \o <<i>> \o SubSeq(t, p + 1, Len(t))

\* the indices 1..n in stable order of their keys
SortedIndices(n, keys) ==
    LET order[k \in 0..n] ==
            IF k = 0 THEN <<>> ELSE InsertSorted(order[k - 1], k, keys)
    IN  order[n]

ElementsAt(s, indices) == [k \in DOMAIN indices |-> s[indices[k]]]

\* sorted(s, key=...) and list.sort(key=...), keys[i] being the key of s[i]:
\* a stable sort, elements with equal keys keep their order.
StableSort(s, keys) == ElementsAt(s, SortedIndices(Len(s), keys))

\* the key with the priority not negated: lower priority first
SortKeyPriorityAscending(e) == <<e.start, e.priority, -(e.end - e.start)>>

\* the key without its tie-breaks: start only
SortKeyStartOnly(e) == <<e.start>>

\* the key with the length not negated: shorter span first
SortKeyLengthAscending(e) == <<e.start, -e.priority, e.end - e.start>>

\* key=lambda e: (e.start, -e.priority, -(e.end - e.start))
SortKey(e) == <<e.start, -e.priority, -(e.end - e.start)>>

sorted_entities(entities) ==
    StableSort(entities, [k \in DOMAIN entities |-> SortKey(entities[k])])

\* the acceptance test on the end of the candidate instead of its start
AcceptsByEnd(entity, last_end) == entity.end >= last_end

\* a candidate that starts where the last accepted span ends rejected
AcceptsStrictly(entity, last_end) == entity.start > last_end

\* every candidate accepted
AcceptsAlways(entity, last_end) == TRUE

\* if entity.start >= last_end
Accepts(entity, last_end) == entity.start >= last_end

\* last_end left at its initial value
LastEndStale(entity) == -1

\* last_end set to the start of the accepted span
LastEndAtStart(entity) == entity.start

\* last_end = entity.end
LastEndAfter(entity) == entity.end

RECURSIVE Sweep(_, _, _, _)
Sweep(sorted, i, last_end, result) ==
    IF i > Len(sorted) THEN result
    ELSE LET entity == sorted[i]
         IN  IF Accepts(entity, last_end)
             THEN Sweep(sorted, i + 1, LastEndAfter(entity), Append(result, entity))
             ELSE Sweep(sorted, i + 1, last_end, result)

remove_overlaps(entities) ==
    IF entities = <<>> THEN <<>>
    ELSE Sweep(sorted_entities(entities), 1, -1, <<>>)

---------------------------------------------------------------------------
(* Tag overlay: FinancialNoteTagger.tag_text, extract_entities,            *)
(* tag_paragraph.                                                          *)

\* key=lambda e: e.start
StartKey(e) == <<e.start>>

\* entities.sort(key=lambda e: e.start) and sorted(entities, key=...start)
sort_by_start(entities) ==
    StableSort(entities, [k \in DOMAIN entities |-> StartKey(entities[k])])

\* f'<Tag id="{entity.tag_id}">' and '</Tag>', each one token of a tagged text
OpenMarker(tag_id) == "<Tag id=\"" \o tag_id \o "\">"

CloseMarker == "</Tag>"

TaggedEntity(entity) ==
    <<OpenMarker(entity.tag_id)>> \o entity.text \o <<CloseMarker>>

\* last_pos set to the start of the entity instead of its end
LastPosAtStart(entity) == entity.start

\* last_pos = entity.end
LastPosAfter(entity) == entity.end

RECURSIVE TagLoop(_, _, _, _, _)
TagLoop(t, entities, i, last_pos, result) ==
    IF i > Len(entities) THEN result \o Slice(t, last_pos, Len(t))
    ELSE LET entity == entities[i]
         IN  TagLoop(t, entities, i + 1, LastPosAfter(entity),
                     result \o Slice(t, last_pos, entity.start)
                            \o TaggedEntity(entity))

\* nothing returned when there is no entity to tag
tag_text_dropping(t, entities) ==
    IF entities = <<>> THEN <<>>
    ELSE TagLoop(t, sort_by_start(entities), 1, 0, <<>>)

tag_text(t, entities) ==
    IF entities = <<>> THEN t
    ELSE TagLoop(t, sort_by_start(entities), 1, 0, <<>>)

\* extract_entities after the extractors have filled the pool: resolve the
\* overlaps, then sort by position.
extract_entities(entities) == sort_by_start(remove_overlaps(entities))

---------------------------------------------------------------------------
(* Characters and strings, as the segmenter uses them.                     *)

UpperCase ==
    <<"A", "B", "C", "D", "E", "F", "G", "H", "I", "J", "K", "L", "M", "N",
      "O", "P", "Q", "R", "S", "T", "U", "V", "W", "X", "Y", "Z">>

LowerCase ==
    <<"a", "b", "c", "d", "e", "f", "g", "h", "i", "j", "k", "l", "m", "n",
      "o", "p", "q", "r", "s", "t", "u", "v", "w", "x", "y", "z">>

Digits == {"0", "1", "2", "3", "4", "5", "6", "7", "8", "9"}

Whitespace == {" ", "\t", "\n", "\r"}

\* c.isupper()
IsUpper(c) == \E k \in DOMAIN UpperCase : UpperCase[k] = c

LowerChar(c) ==
    IF IsUpper(c)
    THEN LowerCase[CHOOSE k \in DOMAIN UpperCase : UpperCase[k] = c]
    ELSE c

\* s.lower()
Lower(s) == [k \in DOMAIN s |-> LowerChar(s[k])]

\* s.strip()
Strip(s) ==
    LET kept == {k \in DOMAIN s : s[k] \notin Whitespace}
    IN  IF kept = {} THEN <<>>
        ELSE SubSeq(s, CHOOSE k \in kept : \A m \in kept : k <= m,
                       CHOOSE k \in kept : \A m \in kept : m <= k)

\* pat in s
ContainsSeq(s, pat) ==
    \E k \in 1..(Len(s) - Len(pat) + 1) : SubSeq(s, k, k + Len(pat) - 1) = pat

\* s.split('.', 1)[1] for an s that holds a '.'
AfterFirstDot(s) ==
    LET dot == CHOOSE k \in DOMAIN s : s[k] = "." /\ \A m \in 1..(k - 1) : s[m] # "."
    IN  SubSeq(s, dot + 1, Len(s))

\* re.match(r'^\d+\.', s)
StartsWithNumberDot(s) ==
    \E k \in 2..Len(s) : s[k] = "." /\ \A m \in 1..(k - 1) : s[m] \in Digits

CountUpper(s) == Cardinality({k \in DOMAIN s : IsUpper(s[k])})

\* max(len(content), 1)
RatioDenominator(content) == IF Len(content) > 1 THEN Len(content) ELSE 1

\* the header test met by a ratio of exactly one half
is_header_at_half(paragraph_text) ==
    LET stripped == Strip(paragraph_text)
    IN  IF ~StartsWithNumberDot(stripped) THEN FALSE
        ELSE LET content == Strip(AfterFirstDot(stripped))
             IN  2 * CountUpper(content) >= RatioDenominator(content)

\* SubsectionRules.is_header: uppercase_ratio > 0.5, the ratio being
\* CountUpper / max(len, 1)
is_header(paragraph_text) ==
    LET stripped == Strip(paragraph_text)
    IN  IF ~StartsWithNumberDot(stripped) THEN FALSE
        ELSE LET content == Strip(AfterFirstDot(stripped))
             IN  2 * CountUpper(content) > RatioDenominator(content)

GOING_CONCERN ==
    <<"g", "o", "i", "n", "g", " ", "c", "o", "n", "c", "e", "r", "n">>

MATERIAL_UNCERTAINTY ==
    <<"m", "a", "t", "e", "r", "i", "a", "l", " ", "u", "n", "c", "e", "r",
      "t", "a", "i", "n", "t", "y">>

THESE_STATEMENTS ==
    <<"T", "h", "e", "s", "e", " ", "c", "o", "n", "s", "o", "l", "i", "d",
      "a", "t", "e", "d", " ", "f", "i", "n", "a", "n", "c", "i", "a", "l",
      " ", "s", "t", "a", "t", "e", "m", "e", "n", "t", "s">>

TAG_IDS ==
    [note_root |-> "NatureOfOperationsAndGoingConcernNote",
     header |-> "NatureOfOperationsAndGoingConcernHeader",
     operations_description |->
         "DescriptionOfNatureOfEntitysOperationsAndPrincipalActivities",
     going_concern_description |->
         "DescriptionOfUncertaintiesOfEntitysAbilityToContinueAsGoingConcern",
     company_name |-> "NameOfReportingEntityOrOtherMeansOfIdentification",
     incorporation_date |-> "IncorporationDate",
     address |-> "AddressOfRegisteredOfficeOfEntity",
     trading_symbol |-> "EntityPrimaryTradingSymbol",
     date |-> "Date_Placeholder",
     financial_concept |-> "Financial_Concept_Placeholder",
     financial_amount |-> "Financial_Amount_Placeholder"]

---------------------------------------------------------------------------
(* Subsection segmenter: FinancialNoteTagger.detect_subsections.           *)

\* the trigger without its 'material uncertainty' phrase
should_start_without_uncertainty(t) ==
    \/ ContainsSeq(Lower(t), GOING_CONCERN)
    \/ ContainsSeq(t, THESE_STATEMENTS)

should_start_going_concern(t) ==
    \/ ContainsSeq(Lower(t), GOING_CONCERN)
    \/ ContainsSeq(Lower(t), MATERIAL_UNCERTAINTY)
    \/ ContainsSeq(t, THESE_STATEMENTS)

\* if current_section: subsections.append(current_section)
CloseCurrent(subs, cur) == IF cur # <<>> THEN Append(subs, cur[1]) ELSE subs

\* the header subsection without its skip_tagging mark
HeaderSubsectionTagged(para) ==
    [tag_id |-> TAG_IDS.header, paragraphs |-> <<para>>, skip_tagging |-> FALSE]

HeaderSubsection(para) ==
    [tag_id |-> TAG_IDS.header, paragraphs |-> <<para>>, skip_tagging |-> TRUE]

GoingConcernSection(para) ==
    [tag_id |-> TAG_IDS.going_concern_description, paragraphs |-> <<para>>]

\* the default subsection opened with the going-concern class
OperationsSectionMislabeled(para) ==
    [tag_id |-> TAG_IDS.going_concern_description, paragraphs |-> <<para>>]

OperationsSection(para) ==
    [tag_id |-> TAG_IDS.operations_description, paragraphs |-> <<para>>]

\* the paragraph not appended
ContinueCurrentDropped(section, para) == section

\* current_section['paragraphs'].append(para)
ContinueCurrent(section, para) ==
    [section EXCEPT !.paragraphs = Append(@, para)]

\* the open subsection not emitted at the end of input
FinalSubsectionsDropped(subs, cur) == subs

\* the "Add last section" step after the loop
FinalSubsections(subs, cur) == CloseCurrent(subs, cur)

\* the skip_tagging mark of a subsection not read
SkipTaggingUnread(subsection) == FALSE

\* subsection.get('skip_tagging', False)
SkipTagging(subsection) ==
    IF "skip_tagging" \in DOMAIN subsection THEN subsection.skip_tagging ELSE FALSE

\* the paragraph of the loop's current iteration
Para == paragraphs[idx + 1]

InLoop == pc = "loop" /\ idx < Len(paragraphs)

\* the open subsection never recognised as being of the class
CurrentIsNever(tag_id) == FALSE

\* current_section and current_section['tag_id'] == tag_id
CurrentIs(tag_id) == current_section # <<>> /\ current_section[1].tag_id = tag_id

\* if SubsectionRules.is_header(text): ...
HeaderParagraph ==
    /\ InLoop
    /\ is_header(Para.text)
    /\ subsections' =
          Append(CloseCurrent(subsections, current_section), HeaderSubsection(Para))
    /\ current_section' = <<>>
    /\ idx' = idx + 1
    /\ UNCHANGED <<pc, paragraphs, tagvars, pipevars>>

\* if should_start_going_concern and (not current_section or
\*    current_section['tag_id'] != TAG_IDS['going_concern_description']): ...
StartGoingConcern ==
    /\ InLoop
    /\ ~is_header(Para.text)
    /\ should_start_going_concern(Para.text)
    /\ ~CurrentIs(TAG_IDS.going_concern_description)
    /\ subsections' = CloseCurrent(subsections, current_section)
    /\ current_section' = <<GoingConcernSection(Para)>>
    /\ idx' = idx + 1
    /\ UNCHANGED <<pc, paragraphs, tagvars, pipevars>>

\* elif not current_section: ...
StartOperations ==
    /\ InLoop
    /\ ~is_header(Para.text)
    /\ ~should_start_going_concern(Para.text)
    /\ current_section = <<>>
    /\ current_section' = <<OperationsSection(Para)>>
    /\ idx' = idx + 1
    /\ UNCHANGED <<pc, paragraphs, subsections, tagvars, pipevars>>

\* else: current_section['paragraphs'].append(para)
ContinueSection ==
    /\ InLoop
    /\ ~is_header(Para.text)
    /\ ~(/\ should_start_going_concern(Para.text)
          /\ ~CurrentIs(TAG_IDS.going_concern_description))
    /\ current_section # <<>>
    /\ current_section' = <<ContinueCurrent(current_section[1], Para)>>
    /\ idx' = idx + 1
    /\ UNCHANGED <<pc, paragraphs, subsections, tagvars, pipevars>>

\* after the loop: if current_section: subsections.append(...); return
ReturnSubsections ==
    /\ pc = "loop"
    /\ idx = Len(paragraphs)
    /\ subsections' = FinalSubsections(subsections, current_section)
    /\ pc' = "returned"
    /\ UNCHANGED <<paragraphs, idx, current_section, tagvars, pipevars>>

\* "1. NATURE OF OPERATIONS"
HeaderNature ==
    <<"1", ".", " ", "N", "A", "T", "U", "R", "E", " ", "O", "F", " ", "O",
      "P", "E", "R", "A", "T", "I", "O", "N", "S">>

\* "2. GOING CONCERN"
HeaderGoingConcern ==
    <<"2", ".", " ", "G", "O", "I", "N", "G", " ", "C", "O", "N", "C", "E",
      "R", "N">>

\* "The Company operates in mining."
PlainMining ==
    <<"T", "h", "e", " ", "C", "o", "m", "p", "a", "n", "y", " ", "o", "p",
      "e", "r", "a", "t", "e", "s", " ", "i", "n", " ", "m", "i", "n", "i",
      "n", "g", ".">>

\* "these consolidated financial statements"
PlainLowerThese ==
    <<"t", "h", "e", "s", "e", " ", "c", "o", "n", "s", "o", "l", "i", "d",
      "a", "t", "e", "d", " ", "f", "i", "n", "a", "n", "c", "i", "a", "l",
      " ", "s", "t", "a", "t", "e", "m", "e", "n", "t", "s">>

\* "1. Ab"
PlainNumbered ==
    <<"1", ".", " ", "A", "b">>

\* "There is a material uncertainty."
TriggerUncertainty ==
    <<"T", "h", "e", "r", "e", " ", "i", "s", " ", "a", " ", "m", "a", "t",
      "e", "r", "i", "a", "l", " ", "u", "n", "c", "e", "r", "t", "a", "i",
      "n", "t", "y", ".">>

\* "Going Concern is in doubt."
TriggerGoingConcern ==
    <<"G", "o", "i", "n", "g", " ", "C", "o", "n", "c", "e", "r", "n", " ",
      "i", "s", " ", "i", "n", " ", "d", "o", "u", "b", "t", ".">>

\* "These consolidated financial statements"
TriggerStatements ==
    <<"T", "h", "e", "s", "e", " ", "c", "o", "n", "s", "o", "l", "i", "d",
      "a", "t", "e", "d", " ", "f", "i", "n", "a", "n", "c", "i", "a", "l",
      " ", "s", "t", "a", "t", "e", "m", "e", "n", "t", "s">>

\* The paragraph texts the bounded documents are made of.
SampleTexts ==
    {HeaderNature, HeaderGoingConcern, PlainMining, PlainLowerThese,
     PlainNumbered, TriggerUncertainty, TriggerGoingConcern, TriggerStatements}

\* Short texts around the header test: optional leading blank, no, one or
\* two digits, with or without the '.', and up to MaxLen characters of
\* upper case, lower case, blank, digit and '.'.
NumberedTexts ==
    {pad \o number \o dot \o content :
        pad \in {<<>>, <<" ">>},
        number \in {<<>>, <<"3">>, <<"1", "2">>},
        dot \in {<<>>, <<".">>},
        content \in SeqsUpTo({"A", "b", " ", "1", "."}, MaxLen)}

\* parse_input_xml: one {'text', 'block_index'} per paragraph element; the
\* block index of the k-th paragraph is k.
\* The bounded documents: up to MaxParas paragraphs of the sample texts, and
\* the one-paragraph documents of the short texts.
Documents ==
    {[k \in DOMAIN texts |-> [text |-> texts[k], block_index |-> k]] :
        texts \in SeqsUpTo(SampleTexts, MaxParas)} \cup
    {<<[text |-> t, block_index |-> 1]>> : t \in NumberedTexts}

NoDocument ==
    /\ paragraphs = <<>>
    /\ idx = 0
    /\ subsections = <<>>
    /\ current_section = <<>>

\* self.stats of a new tagger
NewStats ==
    [regex_extractions |-> 0, ner_extractions |-> 0, dictionary_extractions |-> 0]

\* No tagger built and nothing emitted yet
NoPipeline ==
    /\ use_ner = FALSE
    /\ ner = <<>>
    /\ stats = NewStats
    /\ doc = <<>>
    /\ emitted = 0
    /\ output = <<>>
    /\ tagged_text = <<>>
    /\ para_elem = <<>>

InitSeg ==
    /\ pc = "loop"
    /\ paragraphs \in Documents
    /\ idx = 0
    /\ subsections = <<>>
    /\ current_section = <<>>
    /\ text = <<>>
    /\ pool = <<>>
    /\ accepted = <<>>
    /\ tagged = <<>>
    /\ NoPipeline

NextSeg ==
    \/ HeaderParagraph
    \/ StartGoingConcern
    \/ StartOperations
    \/ ContinueSection
    \/ ReturnSubsections

SpecSeg == InitSeg /\ [][NextSeg]_vars

---------------------------------------------------------------------------
(* Specification of the resolver: _remove_overlaps and extract_entities on *)
(* a candidate pool.                                                       *)

\* The sample paragraph of length n: "abab..."
SampleText(n) == [i \in 1..n |-> IF i % 2 = 1 THEN "a" ELSE "b"]

Init ==
    /\ pc = "pool"
    /\ text \in {SampleText(n) : n \in 0..MaxLen}
    /\ pool \in SeqsUpTo(Candidates(text), MaxPool)
    /\ accepted = <<>>
    /\ tagged = <<>>
    /\ NoDocument
    /\ NoPipeline

\* _remove_overlaps called on the pool (as the tests call it)
RemoveOverlaps ==
    /\ pc = "pool"
    /\ accepted' = remove_overlaps(pool)
    /\ pc' = "resolved"
    /\ UNCHANGED <<text, pool, tagged, segvars, pipevars>>

\* extract_entities(text), the extractors having returned pool
ExtractEntities ==
    /\ pc = "pool"
    /\ accepted' = extract_entities(pool)
    /\ pc' = "extracted"
    /\ UNCHANGED <<text, pool, tagged, segvars, pipevars>>

\* The same candidates given to _remove_overlaps again, two neighbours of
\* the pool having changed places (the extractors run in another order)
Reorder ==
    /\ pc = "resolved"
    /\ \E i \in 1..(Len(pool) - 1) :
          pool' = [pool EXCEPT ![i] = pool[i + 1], ![i + 1] = pool[i]]
    /\ accepted' = remove_overlaps(pool')
    /\ UNCHANGED <<pc, text, tagged, segvars, pipevars>>

Next == RemoveOverlaps \/ ExtractEntities \/ Reorder

Spec == Init /\ [][Next]_vars

---------------------------------------------------------------------------
(* Specification of the overlay: tag_paragraph on a paragraph text.        *)

Texts == SeqsUpTo(Alphabet, MaxLen)

InitTag ==
    /\ pc = "pool"
    /\ text \in Texts
    /\ pool \in SeqsUpTo(Candidates(text), MaxTagPool)
    /\ accepted = <<>>
    /\ tagged = <<>>
    /\ NoDocument
    /\ NoPipeline

\* tag_paragraph(text): the extractors returned pool; extract_entities
\* resolves and sorts it, tag_text overlays the result
TagParagraph ==
    /\ pc = "pool"
    /\ accepted' = extract_entities(pool)
    /\ tagged' = tag_text(text, accepted')
    /\ pc' = "tagged"
    /\ UNCHANGED <<text, pool, segvars, pipevars>>

NextTag == TagParagraph

SpecTag == InitTag /\ [][NextTag]_vars

---------------------------------------------------------------------------
(* Properties of the overlap resolver.                                     *)

Overlaps(a, b) == ~(a.end <= b.start \/ b.end <= a.start)

InSeq(e, s) == \E k \in DOMAIN s : s[k] = e

\* C1: whatever the candidate pool (every span with start < end), any two
\* distinct spans the resolver accepted do not overlap; they may touch.
NonOverlap ==
    pc = "resolved" =>
        \A i, j \in DOMAIN accepted :
            i # j => \/ accepted[i].end <= accepted[j].start
                     \/ accepted[j].end <= accepted[i].start

\* Two overlapping candidates were given, and two touching spans were accepted.
NonOverlapWitness ==
    /\ pc = "resolved"
    /\ \E i, j \in DOMAIN pool : i # j /\ Overlaps(pool[i], pool[j])
    /\ \E i, j \in DOMAIN accepted : accepted[i].end = accepted[j].start

BlockedBy(e, s) ==
    /\ InSeq(s, accepted)
    /\ s # e
    /\ s.start <= e.start
    /\ e.start < s.end

SpanView(e) == <<e.start, e.end, e.tag_id, e.text>>

Views(s) == [k \in DOMAIN s |-> SpanView(s[k])]

\* C5: the accepted sequence of (start, end, class, text) values depends only
\* on the collection of candidates: resolving the same candidates in another
\* insertion order returns the same sequence.
OrderIndependence ==
    [][(pc = "resolved" /\ pc' = "resolved") => Views(accepted') = Views(accepted)]_vars

\* A pool of three candidates was resolved in which a lower-priority
\* candidate was inserted before a higher-priority one with the same start.
OrderIndependenceWitness ==
    /\ pc = "resolved"
    /\ Len(pool) = 3
    /\ accepted # <<>>
    /\ \E i, j \in DOMAIN pool :
          /\ i < j
          /\ pool[i].start = pool[j].start
          /\ pool[i].priority < pool[j].priority

\* C10: the spans returned by the resolver, and by extract_entities, are in
\* strictly increasing order of start.
StrictlyIncreasingStart ==
    pc \in {"resolved", "extracted"} =>
        \A k \in 1..(Len(accepted) - 1) : accepted[k].start < accepted[k + 1].start

\* Three spans were accepted from a pool that was not in order of start.
StrictlyIncreasingStartWitness ==
    /\ pc \in {"resolved", "extracted"}
    /\ Len(accepted) = 3
    /\ pool[1].start > pool[2].start

\* The fixed ranking of the classes, highest first.
PriorityRanking ==
    <<"IncorporationDate",
      "AddressOfRegisteredOfficeOfEntity",
      "EntityPrimaryTradingSymbol",
      "NameOfReportingEntityOrOtherMeansOfIdentification",
      "Financial_Amount_Placeholder",
      "Financial_Concept_Placeholder",
      "Date_Placeholder">>

\* c comes before e in the tie-break chain of candidates sharing a start.
Outranks(c, e) ==
    \/ c.priority > e.priority
    \/ c.priority = e.priority /\ (c.end - c.start) > (e.end - e.start)

\* An accepted span that starts before offset s and ends after it.
StartBlocked(s) ==
    \E k \in DOMAIN accepted : accepted[k].start < s /\ s < accepted[k].end

\* C11: among the candidates sharing a start, the accepted one is the one of
\* highest class priority and, at equal priority, the longest; a start that
\* no earlier accepted span blocks has its best candidate accepted; the
\* priorities follow the strict ranking IncorporationDate > Address >
\* TradingSymbol > CompanyName > FinancialAmount > FinancialConcept > Date,
\* no two classes sharing one.
TieBreakChain ==
    /\ DOMAIN ENTITY_PRIORITIES = {PriorityRanking[k] : k \in DOMAIN PriorityRanking}
    /\ \A k \in 1..(Len(PriorityRanking) - 1) :
          ENTITY_PRIORITIES[PriorityRanking[k]]
              > ENTITY_PRIORITIES[PriorityRanking[k + 1]]
    /\ pc \in {"resolved", "extracted"} =>
          \A i \in DOMAIN pool :
              /\ InSeq(pool[i], accepted) =>
                    \A j \in DOMAIN pool :
                        pool[j].start = pool[i].start => ~Outranks(pool[j], pool[i])
              /\ ~StartBlocked(pool[i].start) =>
                    \E k \in DOMAIN accepted :
                        /\ accepted[k].start = pool[i].start
                        /\ ~Outranks(pool[i], accepted[k])

\* Three candidates shared a start: one of lower priority, and two of the
\* highest priority of which the longer one was accepted.
TieBreakChainWitness ==
    /\ pc = "resolved"
    /\ \E i, j, k \in DOMAIN pool :
          /\ pool[i].start = pool[j].start /\ pool[j].start = pool[k].start
          /\ pool[i].priority < pool[j].priority
          /\ pool[j].priority = pool[k].priority
          /\ (pool[j].end - pool[j].start) < (pool[k].end - pool[k].start)
          /\ j < k
          /\ accepted = <<pool[k]>>

---------------------------------------------------------------------------
(* Properties of the tag overlay.                                          *)

IsMarker(token) ==
    \/ token = CloseMarker
    \/ \E tag_id \in EntityTagIds : token = OpenMarker(tag_id)

IsChar(token) == ~IsMarker(token)

\* the tagged text with every '<Tag id="...">' and '</Tag>' marker removed
StripMarkers(tokens) == SelectSeq(tokens, IsChar)

\* C3: the output of tag_paragraph with every tag marker removed is the
\* paragraph text, character for character.
RoundTrip == pc = "tagged" => StripMarkers(tagged) = text

\* Two spans were tagged, given in the pool in the reverse order, with
\* untagged text before the first one.
RoundTripWitness ==
    /\ pc = "tagged"
    /\ Len(accepted) = 2
    /\ accepted[1].start > 0
    /\ pool[1].start > pool[2].start
    /\ Len(tagged) = Len(text) + 4
    /\ tagged[1] = text[1]

---------------------------------------------------------------------------
(* Properties of the subsection segmenter.                                 *)

RECURSIVE ConcatParagraphs(_)
ConcatParagraphs(subs) ==
    IF subs = <<>> THEN <<>>
    ELSE subs[1].paragraphs \o ConcatParagraphs(Tail(subs))

\* where the paragraph p occurs in the subsections
Occurrences(p, subs) ==
    {km \in (DOMAIN subs) \X (1..MaxParas + 1) :
        /\ km[2] \in DOMAIN subs[km[1]].paragraphs
        /\ subs[km[1]].paragraphs[km[2]] = p}

\* C4: every input paragraph is in exactly one returned subsection, once, and
\* the subsections' paragraph lists, concatenated in output order, are the
\* input sequence.
TotalCoverage ==
    pc = "returned" =>
        /\ ConcatParagraphs(subsections) = paragraphs
        /\ \A k \in DOMAIN paragraphs :
              Cardinality(Occurrences(paragraphs[k], subsections)) = 1

\* A document of four paragraphs was split into three subsections.
TotalCoverageWitness ==
    /\ pc = "returned"
    /\ Len(paragraphs) = 4
    /\ Len(subsections) = 3
    /\ \E k \in DOMAIN subsections : Len(subsections[k].paragraphs) = 2

\* the subsections emitted so far, the open one (if any) emitted after them
Closed == IF current_section # <<>>
          THEN Append(subsections, current_section[1])
          ELSE subsections

\* C6: a header paragraph becomes a subsection of its own, of class Header
\* with skip_tagging true, emitted right after the subsection that was open,
\* and leaves no subsection open, whatever else its text contains; the
\* returned list holds that subsection for every header paragraph.
HeaderRule ==
    /\ [][(InLoop /\ is_header(Para.text)) =>
            /\ subsections' =
                  Append(Closed, [tag_id |-> "NatureOfOperationsAndGoingConcernHeader",
                                  paragraphs |-> <<Para>>,
                                  skip_tagging |-> TRUE])
            /\ current_section' = <<>>]_vars
    /\ [](pc = "returned" =>
            \A k \in DOMAIN paragraphs :
                is_header(paragraphs[k].text) =>
                    \E j \in DOMAIN subsections :
                        /\ subsections[j].tag_id = "NatureOfOperationsAndGoingConcernHeader"
                        /\ subsections[j].paragraphs = <<paragraphs[k]>>
                        /\ SkipTagging(subsections[j]))

\* A header whose text holds 'going concern' was emitted right after the
\* subsection that was open before it.
HeaderRuleWitness ==
    /\ pc = "loop"
    /\ idx >= 2
    /\ current_section = <<>>
    /\ Len(subsections) >= 2
    /\ subsections[Len(subsections)].tag_id = TAG_IDS.header
    /\ subsections[Len(subsections)].paragraphs = <<paragraphs[idx]>>
    /\ ContainsSeq(Lower(paragraphs[idx].text), GOING_CONCERN)
    /\ subsections[Len(subsections) - 1].tag_id # TAG_IDS.header
    /\ subsections[Len(subsections) - 1].paragraphs = <<paragraphs[idx - 1]>>

\* the going-concern trigger, phrase by phrase
GoingConcernTrigger(t) ==
    \/ ContainsSeq(Lower(t), GOING_CONCERN)
    \/ ContainsSeq(Lower(t), MATERIAL_UNCERTAINTY)
    \/ ContainsSeq(t, THESE_STATEMENTS)

GoingConcernId ==
    "DescriptionOfUncertaintiesOfEntitysAbilityToContinueAsGoingConcern"

OperationsId == "DescriptionOfNatureOfEntitysOperationsAndPrincipalActivities"

\* C7: a triggering paragraph that is no header is appended to the open
\* subsection if that is GoingConcern; otherwise the open subsection (if any)
\* is emitted and a new GoingConcern subsection starts with the paragraph.
GoingConcernRule ==
    [][(InLoop /\ ~is_header(Para.text) /\ GoingConcernTrigger(Para.text)) =>
          IF current_section # <<>> /\ current_section[1].tag_id = GoingConcernId
          THEN /\ subsections' = subsections
               /\ current_section' =
                     <<[tag_id |-> GoingConcernId,
                        paragraphs |-> Append(current_section[1].paragraphs, Para)]>>
          ELSE /\ subsections' = Closed
               /\ current_section' =
                     <<[tag_id |-> GoingConcernId, paragraphs |-> <<Para>>]>>]_vars

\* An Operations subsection was emitted when a 'material uncertainty'
\* paragraph opened a GoingConcern subsection, to which a second triggering
\* paragraph was then appended.
GoingConcernRuleWitness ==
    /\ pc = "loop"
    /\ idx >= 3
    /\ subsections # <<>>
    /\ subsections[Len(subsections)].tag_id = OperationsId
    /\ current_section # <<>>
    /\ current_section[1].tag_id = GoingConcernId
    /\ Len(current_section[1].paragraphs) = 2
    /\ ContainsSeq(Lower(current_section[1].paragraphs[1].text), MATERIAL_UNCERTAINTY)
    /\ GoingConcernTrigger(current_section[1].paragraphs[2].text)

\* C8: a paragraph that is no header and does not trigger is appended to the
\* open subsection, or opens an Operations subsection when none is open; it
\* emits nothing.
DefaultRule ==
    [][(InLoop /\ ~is_header(Para.text) /\ ~GoingConcernTrigger(Para.text)) =>
          /\ subsections' = subsections
          /\ IF current_section # <<>>
             THEN /\ current_section[1].tag_id \in {OperationsId, GoingConcernId}
                  /\ current_section' =
                        <<[tag_id |-> current_section[1].tag_id,
                           paragraphs |->
                               Append(current_section[1].paragraphs, Para)]>>
             ELSE current_section' =
                        <<[tag_id |-> OperationsId, paragraphs |-> <<Para>>]>>]_vars

\* A plain paragraph opened an Operations subsection, or was appended to the
\* open GoingConcern subsection.
DefaultRuleWitness ==
    /\ pc = "loop"
    /\ idx >= 3
    /\ current_section # <<>>
    /\ current_section[1].tag_id = GoingConcernId
    /\ Len(current_section[1].paragraphs) = 2
    /\ ~GoingConcernTrigger(current_section[1].paragraphs[2].text)
    /\ \E k \in DOMAIN subsections :
          /\ subsections[k].tag_id = OperationsId
          /\ ~GoingConcernTrigger(subsections[k].paragraphs[1].text)

\* C9: at the end of input the open subsection, if any, is emitted last;
\* every returned subsection owns a paragraph; no paragraphs, no subsections.
Termination ==
    [][(pc = "loop" /\ pc' = "returned") =>
          /\ idx = Len(paragraphs)
          /\ subsections' = Closed
          /\ \A k \in DOMAIN subsections' : Len(subsections'[k].paragraphs) >= 1
          /\ paragraphs = <<>> => subsections' = <<>>]_vars

\* The subsection open at the end of input was returned last, after others.
TerminationWitness ==
    /\ pc = "returned"
    /\ current_section # <<>>
    /\ Len(subsections) >= 2
    /\ subsections[Len(subsections)] = current_section[1]

---------------------------------------------------------------------------
(* Regular expressions of the pattern library, as re matches them on a     *)
(* paragraph text: a sequence of characters, offsets counted from 0.       *)

\* A str as the sequence of its characters
Chars(str) == [k \in 1..Len(str) |-> SubSeq(str, k, k)]

UpperSet == {UpperCase[k] : k \in DOMAIN UpperCase}

LowerSet == {LowerCase[k] : k \in DOMAIN LowerCase}

\* [A-Za-z]
AlphaSet == UpperSet \cup LowerSet

\* \w
WordSet == AlphaSet \cup Digits \cup {"_"}

\* text[i], "" outside the text
CharAt(t, i) == IF 0 <= i /\ i < Len(t) THEN t[i + 1] ELSE ""

\* The least element of a non-empty set of offsets
Least(offsets) == CHOOSE i \in offsets : \A k \in offsets : i <= k

\* The greatest one
Greatest(offsets) == CHOOSE i \in offsets : \A k \in offsets : k <= i

\* The end of the longest run of characters of class that starts at i: the
\* first offset from i on that holds no character of the class
RunEnd(t, i, class) ==
    IF i < 0 THEN i
    ELSE Least({j \in i..Len(t) : j = Len(t) \/ t[j + 1] \notin class})

\* A literal at offset i
LitAt(t, i, lit) ==
    /\ 0 <= i
    /\ i + Len(lit) <= Len(t)
    /\ t[i + 1] = lit[1]
    /\ Slice(t, i, i + Len(lit)) = lit

\* A literal at offset i under re.IGNORECASE
LitAtIgnoreCase(t, i, lit) ==
    /\ 0 <= i
    /\ i + Len(lit) <= Len(t)
    /\ LowerChar(t[i + 1]) = LowerChar(lit[1])
    /\ Lower(Slice(t, i, i + Len(lit))) = Lower(lit)

\* \b at offset i
WordBoundary(t, i) == (CharAt(t, i - 1) \in WordSet) # (CharAt(t, i) \in WordSet)

\* \d{n} at offset i
DigitsAt(t, i, n) == \A k \in i..(i + n - 1) : CharAt(t, k) \in Digits

NoMatch == -1

\* (January|February|...|December)
MONTHS ==
    <<Chars("January"), Chars("February"), Chars("March"), Chars("April"),
      Chars("May"), Chars("June"), Chars("July"), Chars("August"),
      Chars("September"), Chars("October"), Chars("November"),
      Chars("December")>>

\* The end of the month name at offset i, or NoMatch
MonthEnd(t, i, ignore_case) ==
    LET hits == {k \in DOMAIN MONTHS :
                    IF ignore_case THEN LitAtIgnoreCase(t, i, MONTHS[k])
                    ELSE LitAt(t, i, MONTHS[k])}
    IN  IF hits = {} THEN NoMatch
        ELSE i + Len(MONTHS[Least(hits)])

\* \s+\d{1,2},\s+\d{4} at offset a: the end of the match, or NoMatch
DayYearEnd(t, a) ==
    LET b == RunEnd(t, a, Whitespace)
        c == RunEnd(t, b, Digits)
        e == RunEnd(t, c + 1, Whitespace)
    IN  IF /\ b > a
           /\ c - b \in {1, 2}
           /\ CharAt(t, c) = ","
           /\ e > c + 1
           /\ DigitsAt(t, e, 4)
        THEN e + 4
        ELSE NoMatch

\* DATE_PATTERNS[0] at offset i
FullDateEnd(t, i, ignore_case) ==
    LET a == MonthEnd(t, i, ignore_case)
    IN  IF a = NoMatch THEN NoMatch ELSE DayYearEnd(t, a)

\* DATE_PATTERNS[1] at offset i
MonthYearEnd(t, i) ==
    LET a == MonthEnd(t, i, FALSE)
        b == RunEnd(t, a, Whitespace)
    IN  IF a # NoMatch /\ b > a /\ DigitsAt(t, b, 4) THEN b + 4 ELSE NoMatch

\* the year pattern matching any four characters
YearEndAnyCharacters(t, i) == IF i + 4 <= Len(t) THEN i + 4 ELSE NoMatch

\* DATE_PATTERNS[2] at offset i
YearEnd(t, i) ==
    IF /\ WordBoundary(t, i)
       /\ LitAt(t, i, <<"1", "9">>) \/ LitAt(t, i, <<"2", "0">>)
       /\ DigitsAt(t, i + 2, 2)
       /\ WordBoundary(t, i + 4)
    THEN i + 4
    ELSE NoMatch

WAS_INCORPORATED == Chars("was incorporated")

\* The offsets j after 'was incorporated' at i where '.*?' may stop: no
\* newline before j, and on\s+ followed by a full date at j
IncorporationStops(t, i) ==
    LET from == i + Len(WAS_INCORPORATED)
    IN  {j \in from..Len(t) :
            /\ \A k \in from..(j - 1) : CharAt(t, k) # "\n"
            /\ LitAtIgnoreCase(t, j, <<"o", "n">>)
            /\ RunEnd(t, j + 2, Whitespace) > j + 2
            /\ FullDateEnd(t, RunEnd(t, j + 2, Whitespace), TRUE) # NoMatch}

\* A match: the offsets of the whole match and of its group 1
Match(start, end, group_start, group_end) ==
    [start |-> start, end |-> end,
     group_start |-> group_start, group_end |-> group_end]

\* The match of INCORPORATION_CONTEXT from i whose date, group 1, is at g
IncorporationDate(t, i, g) ==
    Match(i, FullDateEnd(t, g, TRUE), g, FullDateEnd(t, g, TRUE))

\* INCORPORATION_CONTEXT at offset i under re.IGNORECASE: the lazy '.*?'
\* stops at the first offset that lets the rest match
IncorporationMatch(t, i) ==
    IF ~LitAtIgnoreCase(t, i, WAS_INCORPORATED) \/ IncorporationStops(t, i) = {}
    THEN Match(i, NoMatch, NoMatch, NoMatch)
    ELSE IncorporationDate(t, i, RunEnd(t, Least(IncorporationStops(t, i)) + 2,
                                        Whitespace))

\* (?:,\d{3})* at offset i: the end of the longest repetition
RECURSIVE ThousandsEnd(_, _)
ThousandsEnd(t, i) ==
    IF CharAt(t, i) = "," /\ DigitsAt(t, i + 1, 3)
    THEN ThousandsEnd(t, i + 4)
    ELSE i

\* AMOUNT_PATTERN at offset i
AmountEnd(t, i) ==
    LET run == RunEnd(t, i + 1, Digits)
        a == IF run > i + 4 THEN i + 4 ELSE run
        b == ThousandsEnd(t, a)
    IN  IF CharAt(t, i) # "$" \/ run = i + 1 THEN NoMatch
        ELSE IF CharAt(t, b) = "." /\ DigitsAt(t, b + 1, 2) THEN b + 3
        ELSE b

\* The curly quotation marks U+201C and U+201D, each one character
LeftDoubleQuote == "\\u201C"

RightDoubleQuote == "\\u201D"

UNDER_THE_SYMBOL == Chars("under the symbol")

\* TRADING_SYMBOL_PATTERN at offset i; group 1 is the symbol
TradingSymbolMatch(t, i) ==
    LET a == i + Len(UNDER_THE_SYMBOL)
        b == RunEnd(t, a, Whitespace)
        c == RunEnd(t, b + 1, UpperSet)
    IN  IF /\ LitAt(t, i, UNDER_THE_SYMBOL)
           /\ b > a
           /\ CharAt(t, b) \in {"\"", LeftDoubleQuote}
           /\ c - (b + 1) \in 2..5
           /\ CharAt(t, c) \in {"\"", RightDoubleQuote}
        THEN Match(i, c + 1, b + 1, c)
        ELSE Match(i, NoMatch, NoMatch, NoMatch)

\* r'^([A-Z][a-zA-Z]+\s+Ltd\.)' at offset 0
CompanyMatch(t) ==
    LET a == RunEnd(t, 1, AlphaSet)
        b == RunEnd(t, a, Whitespace)
    IN  IF /\ CharAt(t, 0) \in UpperSet
           /\ a > 1
           /\ b > a
           /\ LitAt(t, b, Chars("Ltd."))
        THEN Match(0, b + 4, 0, b + 4)
        ELSE Match(0, NoMatch, NoMatch, NoMatch)

\* r'\b' + re.escape(concept) + r'\b' at offset i under re.IGNORECASE
ConceptEnd(t, i, concept) ==
    IF /\ WordBoundary(t, i)
       /\ LitAtIgnoreCase(t, i, concept)
       /\ WordBoundary(t, i + Len(concept))
    THEN i + Len(concept)
    ELSE NoMatch

\* [A-Za-z\s]
AlphaSpaceSet == AlphaSet \cup Whitespace

\* [A-Za-z\s,]
AlphaSpaceCommaSet == AlphaSpaceSet \cup {","}

\* ,\s+[A-Z]\d[A-Z]\s+\d[A-Z]\d at offset q: the end of the match, or NoMatch
PostalCodeEnd(t, q) ==
    LET r == RunEnd(t, q + 1, Whitespace)
        u == RunEnd(t, r + 3, Whitespace)
    IN  IF /\ CharAt(t, q) = ","
           /\ r > q + 1
           /\ CharAt(t, r) \in UpperSet
           /\ CharAt(t, r + 1) \in Digits
           /\ CharAt(t, r + 2) \in UpperSet
           /\ u > r + 3
           /\ CharAt(t, u) \in Digits
           /\ CharAt(t, u + 1) \in UpperSet
           /\ CharAt(t, u + 2) \in Digits
        THEN u + 3
        ELSE NoMatch

\* \s+[A-Za-z\s,]+ from offset a, then the postal code: the commas the
\* greedy class may give back to, each after one space and one more character
\* of the class at least
CityCommas(t, a) ==
    {q \in (a + 2)..(RunEnd(t, a, AlphaSpaceCommaSet) - 1) :
        CharAt(t, a) \in Whitespace /\ PostalCodeEnd(t, q) # NoMatch}

\* \s+[A-Za-z\s]+Street, from offset f: the offsets of 'Street,' the greedy
\* class may give back to, those after which the rest of the pattern matches
StreetStops(t, f) ==
    {p \in (f + 2)..RunEnd(t, f, AlphaSpaceSet) :
        /\ CharAt(t, f) \in Whitespace
        /\ LitAt(t, p, Chars("Street,"))
        /\ CityCommas(t, p + 7) # {}}

\* ADDRESS_PATTERN at offset i: the greedy classes keep the last 'Street,'
\* and the last comma that let the pattern match
AddressEnd(t, i) ==
    LET a == RunEnd(t, i, Digits)
        b == IF \E suffix \in {"st", "nd", "rd", "th"} : LitAt(t, a, Chars(suffix))
             THEN a + 2 ELSE a
        c == RunEnd(t, b, Whitespace)
        d == RunEnd(t, c + 6, Whitespace)
        f == RunEnd(t, d, Digits)
    IN  IF /\ a > i
           /\ c > b
           /\ LitAt(t, c, Chars("Floor,"))
           /\ d > c + 6
           /\ f > d
           /\ StreetStops(t, f) # {}
        THEN PostalCodeEnd(t, Greatest(CityCommas(t, Greatest(StreetStops(t, f)) + 7)))
        ELSE NoMatch

\* Patterns.DATE_PATTERNS, in order of specificity
DATE_PATTERNS ==
    <<[kind |-> "full date"], [kind |-> "month and year"], [kind |-> "year"]>>

AMOUNT_PATTERN == [kind |-> "amount"]

ADDRESS_PATTERN == [kind |-> "address"]

TRADING_SYMBOL_PATTERN == [kind |-> "trading symbol"]

INCORPORATION_CONTEXT == [kind |-> "incorporation context"]

\* The keys of FINANCIAL_CONCEPTS, in the order of the dictionary
FINANCIAL_CONCEPTS ==
    <<Chars("working capital deficiency"), Chars("accumulated deficit"),
      Chars("loss"), Chars("operating activities")>>

\* r'\b' + re.escape(concept) + r'\b'
ConceptPattern(concept) == [kind |-> "concept", concept |-> concept]

\* A match of the whole pattern from i to end, without a group of its own
WholeMatch(i, end) == Match(i, end, i, end)

\* pattern.match(text, i): the match of the pattern that starts at offset i;
\* its end is NoMatch when there is none
MatchAt(pattern, t, i) ==
    CASE pattern.kind = "full date" -> WholeMatch(i, FullDateEnd(t, i, FALSE))
      [] pattern.kind = "month and year" -> WholeMatch(i, MonthYearEnd(t, i))
      [] pattern.kind = "year" -> WholeMatch(i, YearEnd(t, i))
      [] pattern.kind = "amount" -> WholeMatch(i, AmountEnd(t, i))
      [] pattern.kind = "address" -> WholeMatch(i, AddressEnd(t, i))
      [] pattern.kind = "concept" -> WholeMatch(i, ConceptEnd(t, i, pattern.concept))
      [] pattern.kind = "trading symbol" -> TradingSymbolMatch(t, i)
      [] pattern.kind = "incorporation context" -> IncorporationMatch(t, i)

\* The scan of re.finditer: the leftmost match, then the scan goes on from
\* its end
\* The offsets of the text at which the pattern matches
MatchStarts(pattern, t) ==
    {i \in 0..(Len(t) - 1) : MatchAt(pattern, t, i).end # NoMatch}

RECURSIVE FindFrom(_, _, _, _, _)

\* The scan goes on from the end of the match m it has found
FindNext(pattern, t, starts, found, m) ==
    FindFrom(pattern, t, m.end, starts, Append(found, m))

\* The scan from offset pos on, starts being the offsets at which the
\* pattern matches
FindFrom(pattern, t, pos, starts, found) ==
    IF \A i \in starts : i < pos THEN found
    ELSE FindNext(pattern, t, starts, found,
                  MatchAt(pattern, t, Least({i \in starts : i >= pos})))

\* re.finditer(pattern, text)
finditer(pattern, t) == FindFrom(pattern, t, 0, MatchStarts(pattern, t), <<>>)

\* The first match of a scan, if any
FirstOf(found) == IF found = <<>> THEN <<>> ELSE <<found[1]>>

\* re.search(pattern, text)
search(pattern, t) == FirstOf(finditer(pattern, t))

\* Entity(start=match.start(), end=match.end(), text=match.group(), ...)
MatchEntity(t, m, tag_id) ==
    [start |-> m.start, end |-> m.end, tag_id |-> tag_id,
     text |-> Slice(t, m.start, m.end), priority |-> ENTITY_PRIORITIES[tag_id]]

\* the entity of a group, at the offsets of the whole match
GroupEntityAtMatchStart(t, m, tag_id) ==
    [start |-> m.start, end |-> m.end, tag_id |-> tag_id,
     text |-> Slice(t, m.group_start, m.group_end),
     priority |-> ENTITY_PRIORITIES[tag_id]]

\* Entity(start=match.start(1), end=match.end(1), text=match.group(1), ...)
GroupEntity(t, m, tag_id) ==
    [start |-> m.group_start, end |-> m.group_end, tag_id |-> tag_id,
     text |-> Slice(t, m.group_start, m.group_end),
     priority |-> ENTITY_PRIORITIES[tag_id]]

MatchEntities(t, matches, tag_id) ==
    [k \in DOMAIN matches |-> MatchEntity(t, matches[k], tag_id)]

GroupEntities(t, matches, tag_id) ==
    [k \in DOMAIN matches |-> GroupEntity(t, matches[k], tag_id)]

extract_incorporation_dates(t) ==
    GroupEntities(t, search(INCORPORATION_CONTEXT, t), TAG_IDS.incorporation_date)

extract_addresses(t) ==
    MatchEntities(t, finditer(ADDRESS_PATTERN, t), TAG_IDS.address)

extract_trading_symbols(t) ==
    GroupEntities(t, finditer(TRADING_SYMBOL_PATTERN, t), TAG_IDS.trading_symbol)

\* The match of re.match as a sequence: empty for None
Matched(m) == IF m.end = NoMatch THEN <<>> ELSE <<m>>

extract_company_names_regex(t) ==
    GroupEntities(t, Matched(CompanyMatch(t)), TAG_IDS.company_name)

extract_amounts(t) ==
    MatchEntities(t, finditer(AMOUNT_PATTERN, t), TAG_IDS.financial_amount)

\* The matches of the concepts from the k-th on, concept after concept
RECURSIVE ConceptEntities(_, _)
ConceptEntities(t, k) ==
    IF k > Len(FINANCIAL_CONCEPTS) THEN <<>>
    ELSE MatchEntities(t, finditer(ConceptPattern(FINANCIAL_CONCEPTS[k]), t),
                       TAG_IDS.financial_concept)
            \o ConceptEntities(t, k + 1)

extract_financial_concepts(t) == ConceptEntities(t, 1)

extract_dates(t) ==
    MatchEntities(t, finditer(DATE_PATTERNS[1], t), TAG_IDS.date)
        \o MatchEntities(t, finditer(DATE_PATTERNS[2], t), TAG_IDS.date)
        \o MatchEntities(t, finditer(DATE_PATTERNS[3], t), TAG_IDS.date)

---------------------------------------------------------------------------
(* The Named-Entity provider (FinancialNER) and the tagger's use of it.    *)

\* The outcome of a call: its value, or an exception raised to the caller
Returned(value) == [raised |-> FALSE, value |-> value]

Raised == [raised |-> TRUE, value |-> <<>>]

\* FinancialNER.is_available
is_available(provider) == provider.use_ner /\ provider.nlp # "None"

\* self.use_ner and self.ner and self.ner.is_available()
ProviderAvailable == use_ner /\ ner # <<>> /\ is_available(ner[1])

RelevantLabels == {"ORG", "GPE", "LOC", "PERSON", "STOCK_SYMBOL", "FINANCIAL_CONCEPT"}

HasRelevantLabel(ent) == ent.label_ \in RelevantLabels

NEREntity(ent) ==
    [text |-> ent.text, label |-> ent.label_,
     start |-> ent.start_char, end |-> ent.end_char, confidence |-> 1]

\* FinancialNER.extract_entities, ents being doc.ents of nlp(text)
ner_extract_entities(provider, ents) ==
    IF ~provider.use_ner \/ provider.nlp = "None" THEN <<>>
    ELSE LET relevant == SelectSeq(ents, HasRelevantLabel)
         IN  [k \in DOMAIN relevant |-> NEREntity(relevant[k])]

\* FinancialNER.extract_organizations: the comprehension reads e.label_ of
\* its first element, an attribute NEREntity does not have (its field is
\* label), so it raises AttributeError unless the list is empty
extract_organizations(provider, ents) ==
    IF ner_extract_entities(provider, ents) = <<>> THEN Returned(<<>>) ELSE Raised

LegalSuffixes == {"Ltd.", "Inc.", "Corp.", "Limited", "Corporation"}

\* any(suffix in org.text for suffix in [...])
HasLegalSuffix(org) ==
    \E suffix \in LegalSuffixes : ContainsSeq(org.text, Chars(suffix))

OrgEntity(org) ==
    [start |-> org.start, end |-> org.end, tag_id |-> TAG_IDS.company_name,
     text |-> org.text,
     priority |-> ENTITY_PRIORITIES[TAG_IDS.company_name]]

\* The entities of the organizations with a legal suffix
OrgEntities(companies) == [k \in DOMAIN companies |-> OrgEntity(companies[k])]

\* The loop of _extract_company_names_ner over orgs, unless the call that
\* was to return them raised
CompaniesOf(orgs) ==
    IF orgs.raised THEN Raised
    ELSE Returned(OrgEntities(SelectSeq(orgs.value, HasLegalSuffix)))

\* _extract_company_names_ner
extract_company_names_ner(ents) ==
    IF ner = <<>> \/ ~is_available(ner[1]) THEN Returned(<<>>)
    ELSE CompaniesOf(extract_organizations(ner[1], ents))

\* the regex fallback skipped once it has counted an extraction
RegexFallbackOnce(t, st) ==
    IF st.regex_extractions > 0 THEN <<>> ELSE extract_company_names_regex(t)

\* regex_entities = self._extract_company_names_regex(text)
RegexFallback(t, st) == extract_company_names_regex(t)

\* What _extract_company_names_hybrid returns and the counters it leaves,
\* given what its two extractors returned
HybridResult(ner_entities, regex_entities, st) ==
    IF ner_entities.raised THEN [raised |-> TRUE, value |-> <<>>, stats |-> st]
    ELSE [raised |-> FALSE,
          value |-> ner_entities.value \o regex_entities,
          stats |-> [st EXCEPT
              !.ner_extractions = @ + Len(ner_entities.value),
              !.regex_extractions = @ + Len(regex_entities)]]

\* _extract_company_names_hybrid on a tagger whose counters are st: the
\* candidates and the counters after the call
extract_company_names_hybrid(t, ents, st) ==
    HybridResult(IF ProviderAvailable THEN extract_company_names_ner(ents)
                 ELSE Returned(<<>>),
                 RegexFallback(t, st), st)

\* The pool and the counters of extract_entities, given what the company
\* and the concept extractors returned
PoolResult(t, companies, concepts, st) ==
    IF companies.raised THEN [raised |-> TRUE, value |-> <<>>, stats |-> st]
    ELSE [raised |-> FALSE,
          value |-> extract_incorporation_dates(t)
                        \o extract_addresses(t)
                        \o extract_trading_symbols(t)
                        \o companies.value
                        \o extract_amounts(t)
                        \o concepts
                        \o extract_dates(t),
          stats |-> [companies.stats EXCEPT
              !.dictionary_extractions = @ + Len(concepts)]]

\* The candidate pool of extract_entities, in the order of the extractors,
\* and the counters after the call
ExtractorPool(t, ents, st) ==
    PoolResult(t, extract_company_names_hybrid(t, ents, st),
               extract_financial_concepts(t), st)

\* get_extraction_mode
get_extraction_mode ==
    IF ProviderAvailable THEN "HYBRID (Regex + NER + Dictionary)"
    ELSE "FALLBACK (Regex + Dictionary only)"

---------------------------------------------------------------------------
(* Specification of the extractors: the regular expressions run on a       *)
(* paragraph text, by a tagger built without a provider.                   *)

\* "incorporated on January 24, 2011 in the year 2011"
Scenario1 == Chars("incorporated on January 24, 2011 in the year 2011")

\* How the sample paragraphs begin
TextPrefixes ==
    {<<>>, Chars("was "), Chars("BestCo Ltd. was "),
     Chars("The Company is listed "), Chars("x")}

\* What comes next in them
TextCores ==
    {<<>>,
     Chars("incorporated on January 24, 2011"),
     Chars("incorporated in May 2023 at a loss of $19,821"),
     Chars("under the symbol \"BCL\""),
     Chars("13th Floor, 1313 Lucky Street, Vancouver, British Columbia, Canada, V1C 2D3"),
     Chars("accumulated deficit and Loss from Operating Activities"),
     Chars(" \n")}

\* How they end
TextSuffixes ==
    {<<>>, Chars(" in the year 2011"), Chars("."), Chars("5"),
     Chars(" and loans of $7,166.50")}

ParagraphTexts ==
    {prefix \o core \o suffix :
        prefix \in TextPrefixes, core \in TextCores, suffix \in TextSuffixes}

\* f"{company} was incorporated" for "BestCo Ltd.", "BestCo Inc.",
\* "BestCo Corp." and "BestCo LLC"
DesignatorTexts ==
    {Chars("BestCo Ltd. was incorporated"), Chars("BestCo Inc. was incorporated"),
     Chars("BestCo Corp. was incorporated"), Chars("BestCo LLC was incorporated")}

\* Texts of whitespace only; the empty text is one of ParagraphTexts
BlankTexts == {Chars("    "), Chars(" \n\t  ")}

InitExt ==
    /\ pc = "text"
    /\ text \in ParagraphTexts \cup DesignatorTexts \cup BlankTexts
    /\ pool = <<>>
    /\ accepted = <<>>
    /\ tagged = <<>>
    /\ NoDocument
    /\ NoPipeline

\* The incorporation-date and the general-date candidates of the text,
\* pooled and given to _remove_overlaps
PoolDates ==
    /\ pc = "text"
    /\ pool' = extract_incorporation_dates(text) \o extract_dates(text)
    /\ accepted' = remove_overlaps(pool')
    /\ pc' = "dates"
    /\ UNCHANGED <<text, tagged, segvars, pipevars>>

\* The extractors have returned
Extracted(extracted) ==
    /\ ~extracted.raised
    /\ pool' = extracted.value
    /\ stats' = extracted.stats

\* extract_entities(text) on a tagger built with use_ner=False: every
\* extractor runs, the pool is resolved and sorted
ExtractText ==
    /\ pc = "text"
    /\ Extracted(ExtractorPool(text, <<>>, stats))
    /\ accepted' = extract_entities(pool')
    /\ pc' = "extracted"
    /\ UNCHANGED <<text, tagged, segvars, use_ner, ner, doc, xmlvars>>

NextExt == PoolDates \/ ExtractText

SpecExt == InitExt /\ [][NextExt]_vars

---------------------------------------------------------------------------
(* Properties of the extractors.                                           *)

\* C12 as stated: for "incorporated on January 24, 2011 in the year 2011"
\* the pooled incorporation-date and general-date candidates resolve to
\* exactly one span, of class IncorporationDate (priority 100) with text
\* "January 24, 2011", and no general Date span is accepted.
IncorporationDateScenario ==
    (pc = "dates" /\ text = Scenario1) =>
        /\ Len(accepted) = 1
        /\ accepted[1].tag_id = TAG_IDS.incorporation_date
        /\ accepted[1].priority = 100
        /\ accepted[1].text = Chars("January 24, 2011")
        /\ \A k \in DOMAIN accepted : accepted[k].tag_id # TAG_IDS.date

---------------------------------------------------------------------------
(* XML output: XMLHandler._set_paragraph_content and generate_output_xml.  *)

\* The characters of one token of a tagged text, a token being a character
\* or a marker, which is longer
TokenChars(token) == IF Len(token) = 1 THEN <<token>> ELSE Chars(token)

RECURSIVE JoinFrom(_, _)

\* The tokens from the i-th to the k-th, a marker, and the rest, joined
JoinAt(tokens, i, k) ==
    SubSeq(tokens, i, k - 1) \o TokenChars(tokens[k]) \o JoinFrom(tokens, k + 1)

\* The tokens from the i-th on, joined
JoinFrom(tokens, i) ==
    IF \A k \in i..Len(tokens) : Len(tokens[k]) = 1
    THEN SubSeq(tokens, i, Len(tokens))
    ELSE JoinAt(tokens, i, Least({k \in i..Len(tokens) : Len(tokens[k]) # 1}))

\* ''.join(result): the tagged text as the string of its characters
JoinTokens(tokens) == JoinFrom(tokens, 1)

\* s.find(pat, from)
Find(s, pat, from) ==
    IF \E k \in from..(Len(s) - Len(pat)) : LitAt(s, k, pat)
    THEN CHOOSE k \in from..(Len(s) - Len(pat)) :
            LitAt(s, k, pat) /\ \A j \in from..(k - 1) : ~LitAt(s, j, pat)
    ELSE -1

\* An index of a slice, negative ones counted from the end, clamped
SliceIndex(s, i) ==
    IF i < 0 THEN (IF Len(s) + i < 0 THEN 0 ELSE Len(s) + i)
    ELSE IF i > Len(s) THEN Len(s) ELSE i

\* s[a:b]
PySlice(s, a, b) == Slice(s, SliceIndex(s, a), SliceIndex(s, b))

TAG_OPEN == Chars("<Tag id=\"")

TAG_CLOSE == Chars("</Tag>")

TextPart(chars) == [kind |-> "text", text |-> chars]

TagPart(tag_id, content) == [kind |-> "tag", tag_id |-> tag_id, content |-> content]

\* the scan going on from the start of the tag's content
CurrentPosAtContent(tag_close) == tag_close

\* current_pos = tag_close + 6
CurrentPosAfter(tag_close) == tag_close + Len(TAG_CLOSE)

\* The while loop of _set_paragraph_content from current_pos on
RECURSIVE ParseParts(_, _, _)
ParseParts(s, current_pos, parts) ==
    LET tag_start == Find(s, TAG_OPEN, current_pos)
        before == IF tag_start > current_pos
                  THEN Append(parts, TextPart(PySlice(s, current_pos, tag_start)))
                  ELSE parts
        tag_open_end == Find(s, <<">">>, tag_start)
        tag_id_start == tag_start + Len(TAG_OPEN)
        tag_id_end == Find(s, <<"\"">>, tag_id_start)
        tag_id == PySlice(s, tag_id_start, tag_id_end)
        tag_close == Find(s, TAG_CLOSE, tag_open_end)
        tag_content == PySlice(s, tag_open_end + 1, tag_close)
    IN  IF tag_start = -1
        THEN IF current_pos < Len(s)
             THEN Append(parts, TextPart(PySlice(s, current_pos, Len(s))))
             ELSE parts
        ELSE IF tag_open_end = -1 \/ tag_close = -1 THEN before
        ELSE ParseParts(s, CurrentPosAfter(tag_close),
                        Append(before, TagPart(tag_id, tag_content)))

\* tag_elem = ET.SubElement(para_elem, 'Tag', {'id': part[1]}), its id
\* kept as the characters read from the tagged text
TagElement(part) ==
    [id |-> part.tag_id, text |-> part.content, tail |-> <<>>]

\* The loop that adds the parts from the i-th on to the element
RECURSIVE AddParts(_, _, _)
AddParts(parts, i, elem) ==
    IF i > Len(parts) THEN elem
    ELSE IF parts[i].kind = "tag"
    THEN AddParts(parts, i + 1,
                  [elem EXCEPT !.children = Append(@, TagElement(parts[i]))])
    ELSE IF elem.children # <<>>
    THEN AddParts(parts, i + 1,
                  [elem EXCEPT !.children[Len(elem.children)].tail = parts[i].text])
    ELSE AddParts(parts, i + 1, [elem EXCEPT !.text = @ \o parts[i].text])

\* The element built from the parts
BuildElement(s, parts) ==
    IF parts = <<>> THEN [text |-> s, children |-> <<>>]
    ELSE IF parts[1].kind = "text"
    THEN AddParts(Tail(parts), 1, [text |-> parts[1].text, children |-> <<>>])
    ELSE AddParts(parts, 1, [text |-> <<>>, children |-> <<>>])

\* _set_paragraph_content(para_elem, tagged_text): the text and the Tag
\* children of the paragraph element
set_paragraph_content(s) ==
    CHOOSE elem \in {BuildElement(s, parts) : parts \in {ParseParts(s, 0, <<>>)}} : TRUE

\* What tag_paragraph returns once extract_entities has returned entities
TaggedResult(t, extracted, entities) ==
    [raised |-> FALSE, pool |-> extracted.value, entities |-> entities,
     tagged |-> tag_text(t, entities), stats |-> extracted.stats]

\* tag_paragraph after the extractors have run
ResolvedResult(t, extracted, st) ==
    IF extracted.raised
    THEN [raised |-> TRUE, pool |-> <<>>, entities |-> <<>>,
          tagged |-> <<>>, stats |-> st]
    ELSE TaggedResult(t, extracted, extract_entities(extracted.value))

\* tag_paragraph(text) on a tagger whose counters are st, ents being what
\* the provider finds in the text: extraction, resolution and overlay
tag_paragraph(t, ents, st) == ResolvedResult(t, ExtractorPool(t, ents, st), st)

\* An entity of nlp(text).ents
DocEnt(t, start, end, label) ==
    [text |-> Slice(t, start, end), label_ |-> label,
     start_char |-> start, end_char |-> end]

\* The labels the provider gives in the model: an organization, a place,
\* and one that FinancialNER.extract_entities drops
AnswerLabels == {"ORG", "GPE", "DATE"}

\* Where the first word of the text ends, or its company name if it starts
\* with one
FirstNameEnds(t) ==
    IF CompanyMatch(t).end # NoMatch THEN {CompanyMatch(t).end}
    ELSE IF RunEnd(t, 0, AlphaSet) > 0 THEN {RunEnd(t, 0, AlphaSet)}
    ELSE {}

\* What nlp(text).ents may be: nothing, or one entity at the start of the
\* text;nlp is not called when the provider is not in use
ProviderAnswers(t) ==
    IF ProviderAvailable
    THEN {<<>>} \cup {<<DocEnt(t, 0, end, label)>> :
                         end \in FirstNameEnds(t), label \in AnswerLabels}
    ELSE {<<>>}

\* The paragraphs of the subsections from the k-th on, in the order the
\* loops of generate_output_xml visit them, each with its subsection
RECURSIVE FlatParagraphs(_, _)
FlatParagraphs(subs, k) ==
    IF k > Len(subs) THEN <<>>
    ELSE [j \in DOMAIN subs[k].paragraphs |->
              [section |-> k, first |-> j = 1, para |-> subs[k].paragraphs[j]]]
            \o FlatParagraphs(subs, k + 1)

\* The paragraph the loops reach next
NextItem == FlatParagraphs(subsections, 1)[emitted + 1]

\* section_tag = ET.SubElement(note, 'Tag', {'id': subsection['tag_id']}),
\* made when the loop enters the subsection
WithSection(out, item) ==
    IF item.first
    THEN Append(out, [id |-> subsections[item.section].tag_id, paragraphs |-> <<>>])
    ELSE out

\* para_elem = ET.SubElement(section_tag, 'paragraph', {'block_index': ...})
\* and _set_paragraph_content(para_elem, tagged_text)
WithBlockIndex(para, content) ==
    [block_index |-> para.block_index,
     text |-> content.text, children |-> content.children]

ParagraphElement(para, s) ==
    WithBlockIndex(para, set_paragraph_content(s))

\* the paragraph element put before the others of its section
WithParagraphFirst(out, item, elem) ==
    LET sections == WithSection(out, item)
    IN  [sections EXCEPT ![Len(sections)].paragraphs = <<elem>> \o @]

WithParagraph(out, item, elem) ==
    LET sections == WithSection(out, item)
    IN  [sections EXCEPT ![Len(sections)].paragraphs = Append(@, elem)]

\* every paragraph tagged, whatever its subsection
TaggedTextAlways(subsection) == FALSE

\* if skip_tagging: tagged_text = para['text']
KeepsText(subsection) == SkipTagging(subsection)

---------------------------------------------------------------------------
(* Specification of the pipeline: a tagger is built, generate_output_xml   *)
(* segments the paragraphs and emits them one by one.                      *)

\* How many paragraphs the documents of the pipeline have at most
MaxDocParas == 2

\* "1. NET LOSS IN 2023"
HeaderWithYear == Chars("1. NET LOSS IN 2023")

\* "BestCo Ltd. was incorporated in 2011."
CompanyIncorporated == Chars("BestCo Ltd. was incorporated in 2011.")

\* "As at December 31, 2023, the loss was $11,459."
LossAmount == Chars("As at December 31, 2023, the loss was $11,459.")

PipelineTexts ==
    {HeaderWithYear, CompanyIncorporated, LossAmount, PlainMining,
     TriggerUncertainty}

PipelineDocuments ==
    {[k \in DOMAIN texts |-> [text |-> texts[k], block_index |-> k]] :
        texts \in SeqsUpTo(PipelineTexts, MaxDocParas)}

\* How loading the model ends: spacy.load and _setup_custom_patterns
\* return, spacy.load raises OSError, or either raises another exception
LoadOutcomes == {"loaded", "OSError", "other exception"}

\* FinancialNER(): only OSError is caught
FinancialNER(spacy_available, load) ==
    IF ~spacy_available THEN Returned([use_ner |-> FALSE, nlp |-> "None"])
    ELSE IF load = "loaded" THEN Returned([use_ner |-> TRUE, nlp |-> "model"])
    ELSE IF load = "OSError" THEN Returned([use_ner |-> FALSE, nlp |-> "None"])
    ELSE Raised

\* get_ner() if use_ner else None
get_ner(flag, spacy_available, load) ==
    IF ~flag THEN Returned(<<>>)
    ELSE LET provider == FinancialNER(spacy_available, load)
         IN  IF provider.raised THEN Raised ELSE Returned(<<provider.value>>)

InitPipe ==
    /\ pc = "new"
    /\ paragraphs \in PipelineDocuments
    /\ idx = 0
    /\ subsections = <<>>
    /\ current_section = <<>>
    /\ text = <<>>
    /\ pool = <<>>
    /\ accepted = <<>>
    /\ tagged = <<>>
    /\ NoPipeline

\* self.ner = get_ner() if use_ner else None
Built(provider) ==
    /\ ~provider.raised
    /\ ner' = provider.value

\* FinancialNoteTagger(use_ner=flag) returns; generate_output_xml is then
\* called and enters detect_subsections
Construct ==
    /\ pc = "new"
    /\ \E flag \in BOOLEAN, spacy_available \in BOOLEAN, load \in LoadOutcomes :
          /\ use_ner' = flag
          /\ Built(get_ner(flag, spacy_available, load))
    /\ stats' = NewStats
    /\ pc' = "loop"
    /\ UNCHANGED <<tagvars, segvars, doc, xmlvars>>

\* FinancialNoteTagger(use_ner=flag) raises what get_ner raised
ConstructRaises ==
    /\ pc = "new"
    /\ \E flag \in BOOLEAN, spacy_available \in BOOLEAN, load \in LoadOutcomes :
          get_ner(flag, spacy_available, load).raised
    /\ pc' = "raised"
    /\ UNCHANGED <<tagvars, segvars, pipevars>>

Emitting == pc = "returned" /\ emitted < Len(FlatParagraphs(subsections, 1))

\* One paragraph of a subsection that is not tagged
EmitHeader ==
    /\ Emitting
    /\ KeepsText(subsections[NextItem.section])
    /\ tagged_text' = NextItem.para.text
    /\ para_elem' = <<ParagraphElement(NextItem.para, tagged_text')>>
    /\ output' = WithParagraph(output, NextItem, para_elem'[1])
    /\ emitted' = emitted + 1
    /\ UNCHANGED <<pc, tagvars, segvars, taggervars>>

\* tag_paragraph has returned result
Tagged(result) ==
    /\ ~result.raised
    /\ pool' = result.pool
    /\ accepted' = result.entities
    /\ tagged' = result.tagged
    /\ stats' = result.stats

\* One paragraph of another subsection: tag_paragraph returns
EmitTagged ==
    /\ Emitting
    /\ ~KeepsText(subsections[NextItem.section])
    /\ \E ents \in ProviderAnswers(NextItem.para.text) :
          /\ doc' = ents
          /\ Tagged(tag_paragraph(NextItem.para.text, ents, stats))
    /\ text' = NextItem.para.text
    /\ tagged_text' = JoinTokens(tagged')
    /\ para_elem' = <<ParagraphElement(NextItem.para, tagged_text')>>
    /\ output' = WithParagraph(output, NextItem, para_elem'[1])
    /\ emitted' = emitted + 1
    /\ UNCHANGED <<pc, segvars, use_ner, ner>>

\* One paragraph of another subsection: tag_paragraph raises, and so does
\* generate_output_xml
EmitRaises ==
    /\ Emitting
    /\ ~KeepsText(subsections[NextItem.section])
    /\ \E ents \in ProviderAnswers(NextItem.para.text) :
          /\ tag_paragraph(NextItem.para.text, ents, stats).raised
          /\ doc' = ents
    /\ text' = NextItem.para.text
    /\ output' = WithSection(output, NextItem)
    /\ pc' = "raised"
    /\ UNCHANGED <<pool, accepted, tagged, segvars, use_ner, ner, stats,
                   emitted, tagged_text, para_elem>>

\* return root
ReturnRoot ==
    /\ pc = "returned"
    /\ emitted = Len(FlatParagraphs(subsections, 1))
    /\ pc' = "done"
    /\ UNCHANGED <<tagvars, segvars, pipevars>>

NextPipe ==
    \/ Construct
    \/ ConstructRaises
    \/ HeaderParagraph
    \/ StartGoingConcern
    \/ StartOperations
    \/ ContinueSection
    \/ ReturnSubsections
    \/ EmitHeader
    \/ EmitTagged
    \/ EmitRaises
    \/ ReturnRoot

SpecPipe == InitPipe /\ [][NextPipe]_vars

---------------------------------------------------------------------------
(* The orchestration of generate_output_xml.                               *)

\* The paragraph elements of the sections from the k-th on, in order
RECURSIVE OutputParagraphs(_, _)
OutputParagraphs(out, k) ==
    IF k > Len(out) THEN <<>>
    ELSE out[k].paragraphs \o OutputParagraphs(out, k + 1)

\* The element is what _set_paragraph_content builds from the tagged text s
BuiltFrom(para, s, elem) == elem = ParagraphElement(para, s)

\* The element is built from what tag_paragraph returns on the paragraph's
\* text, for something the provider may answer
EmittedAsTagged(para, elem) ==
    \E ents \in ProviderAnswers(para.text) :
       \E result \in {tag_paragraph(para.text, ents, NewStats)} :
          /\ ~result.raised
          /\ \E s \in {JoinTokens(result.tagged)} : BuiltFrom(para, s, elem)

\* The element holds the paragraph's text and no Tag child
EmittedUnchanged(para, elem) ==
    elem = [block_index |-> para.block_index, text |-> para.text,
            children |-> <<>>]

\* C13: skip_tagging is true exactly for the Header subsections; every
\* paragraph of a skip_tagging subsection is emitted with its text unchanged
\* and no Tag child, and every paragraph of another subsection is emitted as
\* what tag_paragraph returns on its text
Orchestration ==
    /\ \A k \in DOMAIN subsections :
          SkipTagging(subsections[k]) <=> subsections[k].tag_id = TAG_IDS.header
    /\ \A k \in 1..emitted :
          \E item \in {FlatParagraphs(subsections, 1)[k]},
             elem \in {OutputParagraphs(output, 1)[k]} :
             IF SkipTagging(subsections[item.section])
             THEN EmittedUnchanged(item.para, elem)
             ELSE EmittedAsTagged(item.para, elem)

\* A header that holds a year and a paragraph with entities have both been
\* emitted, the header unchanged and the paragraph with Tag children
OrchestrationWitness ==
    /\ pc = "done"
    /\ emitted = 2
    /\ subsections[1].tag_id = TAG_IDS.header
    /\ subsections[1].paragraphs[1].text = HeaderWithYear
    /\ output[1].paragraphs[1].children = <<>>
    /\ output[1].paragraphs[1].text = HeaderWithYear
    /\ output[2].paragraphs[1].children # <<>>

---------------------------------------------------------------------------
(* Failures of the provider path and of the provider's initialization.     *)

\* C14 as stated: a failure of an extractor on one paragraph does not
\* propagate: generate_output_xml goes on to the next paragraph without
\* raising, and a paragraph whose extraction failed is emitted with its
\* original text and no Tag child.
ExtractionFailuresLocal ==
    [][Emitting =>
          /\ pc' = "returned"
          /\ emitted' = emitted + 1
          /\ tag_paragraph(NextItem.para.text, doc', stats).raised =>
                EmittedUnchanged(NextItem.para, para_elem'[1])]_vars

\* The NEREntity list FinancialNER.extract_entities makes of the provider's
\* answer for the last text
RelevantEntities == ner_extract_entities(ner[1], doc)

IsOrganization(e) == e.label = "ORG"

\* C15 as stated: with the provider available, extract_organizations
\* returns exactly the provider's entities labeled ORG, the tagger makes
\* CompanyName candidates of those with a legal suffix only, and an entity
\* with another label becomes no span and causes no error.
OrganizationsOnly ==
    ProviderAvailable =>
       /\ \E orgs \in {extract_organizations(ner[1], doc)} :
             /\ ~orgs.raised
             /\ orgs.value = SelectSeq(RelevantEntities, IsOrganization)
       /\ \E companies \in {extract_company_names_ner(doc)} :
             /\ ~companies.raised
             /\ companies.value =
                   OrgEntities(SelectSeq(SelectSeq(RelevantEntities, IsOrganization),
                                         HasLegalSuffix))

\* How loading or configuring the model can fail
LoadErrors == LoadOutcomes \ {"loaded"}

\* C16 as stated: whatever error loading or configuring the provider
\* raises, FinancialNoteTagger's constructor returns, and the provider it
\* holds is not available.
ProviderInitFailSoft ==
    [][pc = "new" =>
          /\ pc' = "loop"
          /\ \A load \in LoadErrors :
                \E provider \in {get_ner(use_ner', TRUE, load)} :
                   /\ ~provider.raised
                   /\ provider.value # <<>> => ~is_available(provider.value[1])]_vars

---------------------------------------------------------------------------
(* Specification of the paragraph node: tag_paragraph on a paragraph text, *)
(* then _set_paragraph_content on the tagged text.                         *)

\* self._set_paragraph_content(para_elem, tagged_text)
SetParagraphContent ==
    /\ pc = "tagged"
    /\ tagged_text' = JoinTokens(tagged)
    /\ para_elem' = <<set_paragraph_content(tagged_text')>>
    /\ pc' = "built"
    /\ UNCHANGED <<tagvars, segvars, taggervars, emitted, output>>

NextNode == TagParagraph \/ SetParagraphContent

SpecNode == InitTag /\ [][NextNode]_vars

\* The inner and the trailing texts of the children from the k-th on
RECURSIVE ChildrenText(_, _)
ChildrenText(children, k) ==
    IF k > Len(children) THEN <<>>
    ELSE children[k].text \o children[k].tail \o ChildrenText(children, k + 1)

\* The node has one Tag child per span, in the spans' order, each with the
\* span's class id and text, and its texts concatenate to t
NodeOf(t, spans, node) ==
    /\ Len(node.children) = Len(spans)
    /\ \A k \in DOMAIN spans :
          /\ node.children[k].id = Chars(spans[k].tag_id)
          /\ node.children[k].text = spans[k].text
    /\ node.text \o ChildrenText(node.children, 1) = t

\* C20: the node _set_paragraph_content builds from the tagged text of a
\* paragraph has exactly one Tag child per accepted span, in start order,
\* each with the span's class id and inner text, and the root text followed
\* by each child's inner and trailing text is the paragraph's text
NodeRoundTrip ==
    pc = "built" =>
       /\ \A j, k \in DOMAIN accepted : j < k => accepted[j].start < accepted[k].start
       /\ NodeOf(text, accepted, para_elem[1])

\* A node with text before two adjacent Tag children
NodeRoundTripWitness ==
    /\ pc = "built"
    /\ Len(para_elem[1].children) = 2
    /\ para_elem[1].text # <<>>
    /\ para_elem[1].children[1].tail = <<>>

---------------------------------------------------------------------------
(* The regex fallback, the counters and the spans of the extractors.       *)

\* The candidates end with those of the regex fallback
EndsWith(candidates, regex_entities) ==
    /\ Len(regex_entities) <= Len(candidates)
    /\ SubSeq(candidates, Len(candidates) - Len(regex_entities) + 1,
              Len(candidates)) = regex_entities

\* C17 as stated: on the last text the tagger was given, the regex fallback
\* runs whether or not the provider is available; and with the provider
\* absent extract_entities completes, the CompanyName candidates are those
\* of the regex fallback only, ner_extractions is 0 and the mode is the
\* fallback mode.
RegexFallbackAlways ==
    /\ \E hybrid \in {extract_company_names_hybrid(text, doc, stats)},
          regex_entities \in {extract_company_names_regex(text)} :
          /\ ~hybrid.raised
          /\ EndsWith(hybrid.value, regex_entities)
          /\ hybrid.stats.regex_extractions =
                stats.regex_extractions + Len(regex_entities)
          /\ ~ProviderAvailable => hybrid.value = regex_entities
    /\ ~ProviderAvailable =>
          /\ ~ExtractorPool(text, doc, stats).raised
          /\ stats.ner_extractions = 0
          /\ get_extraction_mode = "FALLBACK (Regex + Dictionary only)"

\* C18: no counter ever decreases, and the counters are observational: the
\* accepted spans and the tagged text tag_paragraph gives for a text are
\* those it gives on a tagger whose counters are all 0
CountersObservational ==
    [][/\ \A counter \in DOMAIN stats : stats'[counter] >= stats[counter]
       /\ (Emitting /\ emitted' = emitted + 1
              /\ ~SkipTagging(subsections[NextItem.section])) =>
             \E fresh \in {tag_paragraph(text', doc', NewStats)} :
                /\ accepted' = fresh.entities
                /\ tagged' = fresh.tagged]_vars

\* Two paragraphs have been tagged on a tagger whose counters had grown
\* with the first
CountersObservationalWitness ==
    /\ pc = "done"
    /\ emitted = 2
    /\ Len(subsections) = 1
    /\ stats.regex_extractions = 1
    /\ stats.dictionary_extractions = 1
    /\ accepted # <<>>

\* The span lies in the text t, is not empty and holds the characters of t
\* it covers
IsSpanOf(t, e) ==
    /\ 0 <= e.start
    /\ e.start < e.end
    /\ e.end <= Len(t)
    /\ e.text = Slice(t, e.start, e.end)

\* C19: every span an extractor produces, and every accepted span, has
\* 0 <= start < end <= len(text) and holds text[start:end] as its text
SpanInvariants ==
    /\ \A k \in DOMAIN pool : IsSpanOf(text, pool[k])
    /\ \A k \in DOMAIN accepted : IsSpanOf(text, accepted[k])

\* The extractors produced a span from a group that starts after its match
\* does, and the resolver dropped some span
SpanInvariantsWitness ==
    /\ pc = "extracted"
    /\ \E k \in DOMAIN pool :
          pool[k].tag_id = TAG_IDS.incorporation_date /\ pool[k].start > 4
    /\ Len(accepted) < Len(pool)
    /\ Len(accepted) >= 3

---------------------------------------------------------------------------
(* Texts without an accepted span.                                         *)

\* C21: for the empty pool the resolver returns the empty sequence, and
\* when no span is accepted tag_paragraph returns the text unchanged, with
\* no tag marker in it
UntaggedUnchanged ==
    pc = "tagged" =>
       /\ pool = <<>> => accepted = <<>>
       /\ accepted = <<>> =>
             /\ tagged = text
             /\ tag_text(text, <<>>) = text
             /\ \A k \in DOMAIN tagged : ~IsMarker(tagged[k])

\* A text of several characters came out of tag_paragraph with no span
\* accepted
UntaggedUnchangedWitness ==
    /\ pc = "tagged"
    /\ accepted = <<>>
    /\ Len(text) >= 2
    /\ tagged = text

---------------------------------------------------------------------------
(* The company-name extractor and blank texts.                             *)

\* The designators of the company names the extractor is to find
LegalDesignators == {"Ltd.", "Inc.", "Corp.", "LLC"}

\* The text begins with a capitalised word, whitespace and the designator
BeginsWithDesignator(t, designator) ==
    /\ CharAt(t, 0) \in UpperSet
    /\ RunEnd(t, 1, AlphaSet) > 1
    /\ RunEnd(t, RunEnd(t, 1, AlphaSet), Whitespace) > RunEnd(t, 1, AlphaSet)
    /\ LitAt(t, RunEnd(t, RunEnd(t, 1, AlphaSet), Whitespace), Chars(designator))

\* C22 as stated: for a paragraph that begins with a capitalised word
\* followed by Ltd., Inc., Corp. or LLC the regex company-name extractor
\* returns at least one CompanyName span.
CompanyDesignators ==
    \A designator \in LegalDesignators :
       BeginsWithDesignator(text, designator) =>
          \E e \in {extract_company_names_regex(text)} :
             /\ Len(e) >= 1
             /\ e[1].tag_id = TAG_IDS.company_name

\* The text is empty or holds whitespace only
IsBlank(t) == \A k \in DOMAIN t : t[k] \in Whitespace

\* What an extractor returns that finds nothing
NoSpans == <<>>

\* C23: on the empty string and on a text of whitespace only every
\* extractor returns the empty sequence and so does extract_entities, none
\* raising, and no step changes the text
BlankTextNoSpans ==
    /\ [](IsBlank(text) =>
            /\ extract_incorporation_dates(text) = NoSpans
            /\ extract_addresses(text) = NoSpans
            /\ extract_trading_symbols(text) = NoSpans
            /\ extract_company_names_regex(text) = NoSpans
            /\ extract_amounts(text) = NoSpans
            /\ extract_financial_concepts(text) = NoSpans
            /\ extract_dates(text) = NoSpans
            /\ \E hybrid \in {extract_company_names_hybrid(text, <<>>, stats)} :
                  ~hybrid.raised /\ hybrid.value = NoSpans
            /\ \E extracted \in {ExtractorPool(text, <<>>, stats)} :
                  ~extracted.raised /\ extract_entities(extracted.value) = NoSpans
            /\ pc = "extracted" => pool = NoSpans /\ accepted = NoSpans)
    /\ [][text' = text]_vars

\* extract_entities has returned on a text of several whitespace characters
BlankTextNoSpansWitness ==
    /\ pc = "extracted"
    /\ Len(text) >= 4
    /\ IsBlank(text)
    /\ accepted = <<>>

---------------------------------------------------------------------------
(* The elements generate_output_xml emits.                                 *)

\* The element holds the text of the paragraph and its block_index
HoldsParagraph(elem, para) ==
    /\ elem.block_index = para.block_index
    /\ elem.text \o ChildrenText(elem.children, 1) = para.text

\* C24: the paragraph elements emitted so far are those of the first input
\* paragraphs, in input order, each with the block_index and the text of
\* its paragraph, under subsection elements that carry the class ids of
\* the detected subsections; and when generate_output_xml returns there is
\* one paragraph element per input paragraph and one subsection element
\* per subsection
ParagraphElements ==
    /\ \E elems \in {OutputParagraphs(output, 1)} :
          /\ Len(elems) = emitted
          /\ emitted <= Len(paragraphs)
          /\ \A k \in DOMAIN elems : HoldsParagraph(elems[k], paragraphs[k])
    /\ Len(output) <= Len(subsections)
    /\ \A j \in DOMAIN output :
          /\ output[j].id = subsections[j].tag_id
          /\ Len(output[j].paragraphs) <= Len(subsections[j].paragraphs)
    /\ pc = "done" =>
          /\ emitted = Len(paragraphs)
          /\ Len(output) = Len(subsections)
          /\ \A j \in DOMAIN output :
                Len(output[j].paragraphs) = Len(subsections[j].paragraphs)

\* generate_output_xml has returned one subsection element with two
\* paragraph elements, the second with Tag children
ParagraphElementsWitness ==
    /\ pc = "done"
    /\ Len(output) = 1
    /\ Len(output[1].paragraphs) = 2
    /\ output[1].paragraphs[1].block_index = 1
    /\ output[1].paragraphs[2].block_index = 2
    /\ output[1].paragraphs[2].children # <<>>

---------------------------------------------------------------------------
(* The sweep of the resolver.                                              *)

\* The accepted spans that come before the candidate in the sorted order
AcceptedBefore(c) ==
    {k \in DOMAIN accepted : TupleLess(SortKey(accepted[k]), SortKey(c))}

\* The candidate starts at or after the end of the span accepted last
\* before it, if there is one
ClearOfLastAccepted(c) ==
    \A k \in AcceptedBefore(c) :
       k = Greatest(AcceptedBefore(c)) => c.start >= accepted[k].end

InclusionMaximal ==
    pc = "resolved" =>
       \A i \in DOMAIN pool :
          ~InSeq(pool[i], accepted) =>
             \E k \in DOMAIN accepted : Overlaps(pool[i], accepted[k])

\* Two touching spans were accepted and a candidate that overlaps one of
\* them was rejected
InclusionMaximalWitness ==
    /\ pc = "resolved"
    /\ Len(accepted) = 2
    /\ accepted[1].end = accepted[2].start
    /\ \E i \in DOMAIN pool : ~InSeq(pool[i], accepted)

\* C29: every accepted span is a candidate of the pool, unchanged, no span
\* is accepted twice, a pool of identical candidates yields exactly one
\* span, and the call leaves the pool as it was
ResolverFrame ==
    /\ [](pc = "resolved" =>
            /\ \A k \in DOMAIN accepted : InSeq(accepted[k], pool)
            /\ \A j, k \in DOMAIN accepted : j # k => accepted[j] # accepted[k]
            /\ (pool # <<>> /\ \A i \in DOMAIN pool : pool[i] = pool[1]) =>
                  accepted = <<pool[1]>>)
    /\ [][pc = "pool" => pool' = pool]_vars

\* The pool held the same candidate twice and the span was accepted, once,
\* next to another span
ResolverFrameWitness ==
    /\ pc = "resolved"
    /\ Len(accepted) = 2
    /\ \E i, j \in DOMAIN pool :
          i # j /\ pool[i] = pool[j] /\ InSeq(pool[i], accepted)


---------------------------------------------------------------------------
(* C27: the header test.                                                   *)

\* s begins with one or more digits and a '.', and more than half of the
\* characters of the trimmed content after that '.' are uppercase letters
MostlyUpperAfterNumber(s) ==
    \E k \in 2..Len(s) :
        /\ s[k] = "."
        /\ \A m \in 1..(k - 1) : s[m] \in Digits
        /\ \E content \in {Strip(SubSeq(s, k + 1, Len(s)))} :
              /\ content # <<>>
              /\ 2 * CountUpper(content) > Len(content)

NumberedAndMostlyUpper(t) == \E s \in {Strip(t)} : MostlyUpperAfterNumber(s)

\* the k-th paragraph is the paragraph of a Header subsection
InHeaderSubsection(k) ==
    \E j \in DOMAIN subsections :
        /\ subsections[j].tag_id = "NatureOfOperationsAndGoingConcernHeader"
        /\ subsections[j].paragraphs = <<paragraphs[k]>>

\* C27: is_header(text) is true iff the trimmed text begins with digits
\* immediately followed by '.' and, in the trimmed content after that first
\* '.', the uppercase characters are strictly more than half of all the
\* characters (spaces, digits and punctuation included); a ratio of exactly
\* one half and an empty content are not headers.  The segmenter tests every
\* paragraph it reaches so, and returns a Header subsection for exactly the
\* paragraphs that meet the test.
HeaderDetection ==
    /\ InLoop => (is_header(Para.text) <=> NumberedAndMostlyUpper(Para.text))
    /\ pc = "returned" =>
          \A k \in DOMAIN paragraphs :
              InHeaderSubsection(k) <=> NumberedAndMostlyUpper(paragraphs[k].text)

\* One of the paragraphs " 3.A 1" (one character of three is upper case),
\* "12.Ab" (one half), "3." (no content) and ".AA" (no digit) was segmented
\* and is no header.
HeaderDetectionWitness ==
    /\ pc = "returned"
    /\ Len(paragraphs) = 1
    /\ paragraphs[1].text \in
          {<<" ", "3", ".", "A", " ", "1">>, <<"1", "2", ".", "A", "b">>,
           <<"3", ".">>, <<".", "A", "A">>}
    /\ ~InHeaderSubsection(1)


---------------------------------------------------------------------------
(* C28: the order of the subsections between two headers.                  *)

IsHeaderSection(sub) == sub.tag_id = "NatureOfOperationsAndGoingConcernHeader"

IsOperations(sub) ==
    sub.tag_id = "DescriptionOfNatureOfEntitysOperationsAndPrincipalActivities"

IsGoingConcern(sub) ==
    sub.tag_id = "DescriptionOfUncertaintiesOfEntitysAbilityToContinueAsGoingConcern"

\* the subsections in their order: those emitted and the open one during the
\* loop, the returned list after it
InOrder == IF pc = "returned" THEN subsections ELSE Closed

\* C28: between two consecutive Header subsections (or the ends of the
\* list) there are at most two subsections that are no headers, and two of
\* them are Operations followed by GoingConcern; no two adjacent
\* subsections have the same non-header class; and while a GoingConcern
\* subsection is open no Operations subsection is opened (only a header
\* ends it).
SectionOrder ==
    /\ [](/\ \A j \in 1..(Len(InOrder) - 1) :
                (~IsHeaderSection(InOrder[j]) /\ ~IsHeaderSection(InOrder[j + 1])) =>
                    /\ IsOperations(InOrder[j])
                    /\ IsGoingConcern(InOrder[j + 1])
          /\ \A j \in 1..(Len(InOrder) - 2) :
                \/ IsHeaderSection(InOrder[j])
                \/ IsHeaderSection(InOrder[j + 1])
                \/ IsHeaderSection(InOrder[j + 2])
          /\ \A j \in DOMAIN InOrder :
                IsHeaderSection(InOrder[j]) \/ IsOperations(InOrder[j])
                    \/ IsGoingConcern(InOrder[j]))
    /\ [][(current_section # <<>> /\ IsGoingConcern(current_section[1])) =>
            \/ current_section' = <<>>
            \/ IsGoingConcern(current_section'[1])]_vars

\* A header, then an Operations and a GoingConcern subsection were returned;
\* the GoingConcern subsection took in a later paragraph without a trigger,
\* which opened no Operations subsection.
SectionOrderWitness ==
    /\ pc = "returned"
    /\ Len(subsections) = 3
    /\ IsHeaderSection(subsections[1])
    /\ IsOperations(subsections[2])
    /\ IsGoingConcern(subsections[3])
    /\ Len(subsections[3].paragraphs) = 2
    /\ ~should_start_going_concern(subsections[3].paragraphs[2].text)


---------------------------------------------------------------------------
(* C30: header paragraphs and the counters.                                *)

\* The counters a tagger may hold after tag_paragraph has returned for the
\* paragraphs of items from the k-th on that are in no Header subsection,
\* st being its counters before
RECURSIVE CountersOfTagged(_, _, _)
CountersOfTagged(items, k, st) ==
    IF k > Len(items) THEN {st}
    ELSE IF IsHeaderSection(subsections[items[k].section])
    THEN CountersOfTagged(items, k + 1, st)
    ELSE UNION {IF result.raised THEN {}
                ELSE CountersOfTagged(items, k + 1, result.stats) :
                    result \in {tag_paragraph(items[k].para.text, ents, st) :
                                   ents \in ProviderAnswers(items[k].para.text)}}

\* C30: emitting a paragraph of a Header subsection runs no extractor: the
\* three counters are after it what they were before, and the counters
\* generate_output_xml leaves are counters that tagging the other
\* paragraphs alone, in their order, gives.
HeadersUncounted ==
    /\ [][(Emitting /\ emitted' = emitted + 1
              /\ IsHeaderSection(subsections[NextItem.section])) =>
             stats' = stats]_vars
    /\ [](pc = "done" =>
             stats \in CountersOfTagged(FlatParagraphs(subsections, 1), 1, NewStats))

\* The header "1. NET LOSS IN 2023", which holds the concept 'loss', and a
\* paragraph with a company name were emitted: the counters are those of the
\* second paragraph.
HeadersUncountedWitness ==
    /\ pc = "done"
    /\ emitted = 2
    /\ Len(subsections) = 2
    /\ IsHeaderSection(subsections[1])
    /\ extract_financial_concepts(subsections[1].paragraphs[1].text) # <<>>
    /\ stats.regex_extractions = 1
    /\ stats.dictionary_extractions = 0
====
